---------------------------- MODULE Spec2Model ----------------------------
(* A model of the openweather client library (src/src/lib.rs).            *)
(*                                                                        *)
(* The library is synchronous and keeps no state between calls: a call of *)
(* an exported endpoint function validates its day count (two endpoints), *)
(* builds the parameter sequence and the URL, and hands the URL to the    *)
(* generic routine `get`, which performs the HTTP GET and decodes the     *)
(* body.  One action per exported function models the whole call; what    *)
(* the network answers is an input of the call.  The variables record     *)
(* what one call did: the parameters handed to the URL builder, the GET   *)
(* requests performed, the decodes attempted, and the value returned.     *)
EXTENDS Integers, Sequences, FiniteSets, TLC

VARIABLES pc, call, params, requests, decodes, exchange, result

vars == <<pc, call, params, requests, decodes, exchange, result>>

--------------------------------------------------------------------------
(* Bounds of the model and constants of the program.                      *)

\* epoch seconds of start / end / dt range over 0..MaxSec
MaxSec == 1
\* the accumulation threshold ranges over 0..MaxThreshold
MaxThreshold == 1
\* latitude and longitude of Coordinates range over 0..MaxDegree
MaxDegree == 1

\* len: u8
U8Max == 255
\* the largest day count get_16_day_forecast accepts
MaxDays16 == 16
\* the largest day count get_forecast_uv_index accepts
MaxDaysUv == 8

API_BASE == "https://api.openweathermap.org/data/2.5/"

Absent == "<absent>"

--------------------------------------------------------------------------
(* Inputs of the calls.                                                   *)

Keys == {"key-1", "key-2"}

Secs == 0..MaxSec
Thresholds == 0..MaxThreshold
Degrees == 0..MaxDegree
Lens == 0..U8Max

CoordinatesSet == [lat : Degrees, lon : Degrees]

\* LocationSpecifier: the closed set of variants
Locations ==
  { [variant |-> "CityName", city |-> "Minneapolis"],
    [variant |-> "CityAndCountryName", city |-> "Minneapolis", country |-> "USA"],
    [variant |-> "Coordinates", lat |-> 0, lon |-> 0],
    [variant |-> "CityId", id |-> 1],
    [variant |-> "ZipCode", zip |-> "55401", country |-> "USA"] }

\* Settings: an optional unit system and an optional language
SettingsSet == [unit : {Absent, "metric"}, lang : {Absent, "en"}]

\* a response body, as the text of lib.rs line 52: either text that is not
\* JSON, or a JSON object that has or lacks the two fields of the error
\* report and the payload the called endpoint's success schema requires
Bodies ==
  { [json |-> FALSE, cod |-> Absent, message |-> Absent, report |-> Absent] }
  \cup [json : {TRUE}, cod : {Absent, "401"},
        message : {Absent, "Invalid API key"}, report : {Absent, "payload"}]

Statuses == {"200", "401"}

\* what http_req::request::get does: it fails, or it completes an exchange
\* with a status code and a body
Responses ==
  { [ok |-> FALSE, err |-> "connection refused"] }
  \cup [ok : {TRUE}, status : Statuses, body : Bodies]

NoExchange == [ok |-> FALSE, err |-> "no request"]
NoCall == [fn |-> "none"]
NoResult == [kind |-> "none"]

--------------------------------------------------------------------------
(* Decoding (serde_json::from_str into the success type or ErrorReport).  *)

DecodeOk(v) == [ok |-> TRUE, val |-> v]
DecodeErr(m, f) == [ok |-> FALSE, err |-> [msg |-> m, field |-> f]]

\* decode the body as the success type T: unknown fields are dropped
DecodeSuccess(T, body) ==
  IF ~body.json THEN DecodeErr("expected value", Absent)
  ELSE IF body.report = Absent THEN DecodeErr("missing field", "report")
  ELSE DecodeOk([type |-> T, report |-> body.report])

\* decode the body as ErrorReport {cod, message}
DecodeErrorReport(body) ==
  IF ~body.json THEN DecodeErr("expected value", Absent)
  ELSE IF body.cod = Absent THEN DecodeErr("missing field", "cod")
  ELSE IF body.message = Absent THEN DecodeErr("missing field", "message")
  ELSE DecodeOk([type |-> "ErrorReport", cod |-> body.cod, message |-> body.message])

--------------------------------------------------------------------------
(* fn get<T>(url) -> Result<T>                                            *)

\* the match of get on the body of a completed exchange: the success type
\* first, the error report only when that fails
Disambiguate(T, url, body) ==
  LET weather == DecodeSuccess(T, body)
      report == DecodeErrorReport(body)
  IN IF weather.ok
     THEN [result |-> [kind |-> "Ok", val |-> weather.val],
           requests |-> <<url>>, decodes |-> <<T>>]
     ELSE IF report.ok
     THEN [result |-> [kind |-> "Api", report |-> report.val],
           requests |-> <<url>>, decodes |-> <<T, "ErrorReport">>]
     ELSE [result |-> [kind |-> "Parsing2", e0 |-> report.err, e1 |-> weather.err],
           requests |-> <<url>>, decodes |-> <<T, "ErrorReport">>]

\* http_req::request::get(url, &mut res)? when the transport fails
ConnectionFailure(url, resp) ==
  [result |-> [kind |-> "Connection", err |-> resp.err],
   requests |-> <<url>>, decodes |-> <<>>]

\* a get that tries the error report before the success type
get_reportFirst(T, url, resp) ==
  IF ~resp.ok THEN ConnectionFailure(url, resp)
  ELSE LET report == DecodeErrorReport(resp.body)
       IN IF report.ok
          THEN [result |-> [kind |-> "Api", report |-> report.val],
                requests |-> <<url>>, decodes |-> <<"ErrorReport">>]
          ELSE Disambiguate(T, url, resp.body)

\* a get that propagates the first decode failure without trying ErrorReport
get_noReportDecode(T, url, resp) ==
  IF ~resp.ok THEN ConnectionFailure(url, resp)
  ELSE LET weather == DecodeSuccess(T, resp.body)
       IN IF weather.ok
          THEN Disambiguate(T, url, resp.body)
          ELSE [result |-> [kind |-> "Parsing", e0 |-> weather.err],
                requests |-> <<url>>, decodes |-> <<T>>]

\* a get that propagates the second decode failure alone (a bare `?`)
get_bareQuestionMark(T, url, resp) ==
  IF ~resp.ok THEN ConnectionFailure(url, resp)
  ELSE LET out == Disambiguate(T, url, resp.body)
       IN IF out.result.kind = "Parsing2"
          THEN [out EXCEPT !.result = [kind |-> "Parsing", e0 |-> out.result.e0]]
          ELSE out

\* a get that repeats the request once when the transport fails
get_retry(T, url, resp) ==
  IF ~resp.ok
  THEN [ConnectionFailure(url, resp) EXCEPT !.requests = <<url, url>>]
  ELSE Disambiguate(T, url, resp.body)

\* a get that drops the transport failure and decodes the empty buffer
get_ignoreTransport(T, url, resp) ==
  IF ~resp.ok
  THEN Disambiguate(T, url, [json |-> FALSE, cod |-> Absent,
                             message |-> Absent, report |-> Absent])
  ELSE Disambiguate(T, url, resp.body)

\* a get that trusts the status code: only a 200 is decoded as success
get_byStatus(T, url, resp) ==
  IF ~resp.ok THEN ConnectionFailure(url, resp)
  ELSE IF resp.status = "200" THEN Disambiguate(T, url, resp.body)
  ELSE get_reportFirst(T, url, resp)

\* the outcome of get: the value returned, the GET requests performed and
\* the decodes attempted, in order
get(T, url, resp) ==
  IF ~resp.ok THEN ConnectionFailure(url, resp)
  ELSE Disambiguate(T, url, resp.body)

--------------------------------------------------------------------------
(* Parameter construction.  An entry of the parameter sequence is a name, *)
(* a value, and the argument of the call the value was taken from.        *)

Param(n, v, a) == [name |-> n, value |-> v, arg |-> a]

\* the key pushed under the name of another parameter
AppId_wrongName(key) == Param("q", key, "key")

\* params.push(("APPID".to_string(), key.to_string()))
AppId(key) == Param("APPID", key, "key")

\* LocationSpecifier::format
LocationFormat(location) ==
  CASE location.variant = "CityName" ->
         << Param("q", location.city, "location") >>
    [] location.variant = "CityAndCountryName" ->
         << Param("q", location.city \o "," \o location.country, "location") >>
    [] location.variant = "Coordinates" ->
         << Param("lat", ToString(location.lat), "location"),
            Param("lon", ToString(location.lon), "location") >>
    [] location.variant = "CityId" ->
         << Param("id", ToString(location.id), "location") >>
    [] location.variant = "ZipCode" ->
         << Param("zip", location.zip \o "," \o location.country, "location") >>

\* Settings::format
SettingsFormat(settings) ==
  (IF settings.unit = Absent THEN <<>>
   ELSE << Param("units", settings.unit, "settings") >>)
  \o
  (IF settings.lang = Absent THEN <<>>
   ELSE << Param("lang", settings.lang, "settings") >>)

\* Url::parse_with_params(&base, params): the base of every endpoint is
\* API_BASE followed by a literal path, an absolute URL that parses; the
\* parameters become the query, in order
parse_with_params(base, p) ==
  [ok |-> TRUE,
   url |-> [base |-> base,
            query |-> [i \in 1..Len(p) |-> <<p[i].name, p[i].value>>]]]

--------------------------------------------------------------------------
(* The day-count checks.                                                  *)

\* day-count checks that let a count of 0 through
BadLen16_zeroAccepted(len) == len > MaxDays16
BadLenUv_zeroAccepted(len) == len > MaxDaysUv

\* get_16_day_forecast: if len > 16 || len == 0
BadLen16(len) == len > MaxDays16 \/ len = 0

\* get_forecast_uv_index: if len > 8 || len == 0
BadLenUv(len) == len > MaxDaysUv \/ len = 0

InputError(max, len) == [kind |-> "Input", max |-> max, requested |-> len]

\* the success type T of each exported function (its declared Result<T>)
ReturnType(fn) ==
  CASE fn = "get_current_weather" -> "WeatherReportCurrent"
    [] fn = "get_5_day_forecast" -> "WeatherReport5Day"
    [] fn = "get_16_day_forecast" -> "WeatherReport16Day"
    [] fn = "get_one_call_current" -> "WeatherReportOneCall"
    [] fn = "get_one_call_historical" -> "WeatherReportOneCallHistorical"
    [] fn = "get_historical_data" -> "WeatherReportHistorical"
    [] fn = "get_accumulated_temperature_data" -> "WeatherAccumulatedTemperature"
    [] fn = "get_accumulated_precipitation_data" -> "WeatherAccumulatedPrecipitation"
    [] fn = "get_current_uv_index" -> "UvIndex"
    [] fn = "get_forecast_uv_index" -> "ForecastUvIndex"
    [] fn = "get_historical_uv_index" -> "HistoricalUvIndex"

--------------------------------------------------------------------------
(* How a call ends.                                                       *)

\* the call returns before any parameter is built
Rejected(c, err) ==
  /\ pc' = "returned"
  /\ call' = c
  /\ params' = <<>>
  /\ requests' = <<>>
  /\ decodes' = <<>>
  /\ exchange' = NoExchange
  /\ result' = err

\* let url = Url::parse_with_params(&base, params)?; get(&url.as_str())
Fetch(c, path, p, resp) ==
  LET parsed == parse_with_params(API_BASE \o path, p)
      out == get(ReturnType(c.fn), parsed.url, resp)
  IN /\ pc' = "returned"
     /\ call' = c
     /\ params' = p
     /\ IF parsed.ok
        THEN /\ requests' = out.requests
             /\ decodes' = out.decodes
             /\ exchange' = resp
             /\ result' = out.result
        ELSE /\ requests' = <<>>
             /\ decodes' = <<>>
             /\ exchange' = NoExchange
             /\ result' = [kind |-> "UrlParsing"]

--------------------------------------------------------------------------
(* The exported endpoint functions.                                       *)

get_current_weather ==
  /\ pc = "idle"
  /\ \E location \in Locations, key \in Keys, settings \in SettingsSet,
        resp \in Responses :
       Fetch([fn |-> "get_current_weather", key |-> key,
              location |-> location, settings |-> settings],
             "weather",
             LocationFormat(location)
               \o << AppId(key) >>
               \o SettingsFormat(settings),
             resp)

get_5_day_forecast ==
  /\ pc = "idle"
  /\ \E location \in Locations, key \in Keys, settings \in SettingsSet,
        resp \in Responses :
       Fetch([fn |-> "get_5_day_forecast", key |-> key,
              location |-> location, settings |-> settings],
             "forecast",
             LocationFormat(location)
               \o << AppId(key) >>
               \o SettingsFormat(settings),
             resp)

get_16_day_forecast ==
  /\ pc = "idle"
  /\ \E location \in Locations, key \in Keys, len \in Lens,
        settings \in SettingsSet, resp \in Responses :
       LET c == [fn |-> "get_16_day_forecast", key |-> key, len |-> len,
                 location |-> location, settings |-> settings]
       IN IF BadLen16(len)
          THEN Rejected(c, InputError(MaxDays16, len))
          ELSE Fetch(c, "forecast/daily",
                     LocationFormat(location)
                       \o << Param("cnt", ToString(len), "len"),
                             AppId(key) >>
                       \o SettingsFormat(settings),
                     resp)

get_one_call_current ==
  /\ pc = "idle"
  /\ \E coordinates \in CoordinatesSet, key \in Keys, settings \in SettingsSet,
        resp \in Responses :
       Fetch([fn |-> "get_one_call_current", key |-> key,
              coordinates |-> coordinates, settings |-> settings],
             "onecall",
             SettingsFormat(settings)
               \o << Param("lat", ToString(coordinates.lat), "coordinates"),
                     Param("lon", ToString(coordinates.lon), "coordinates"),
                     Param("exclude", "minutely,hourly", "literal"),
                     AppId(key) >>,
             resp)

get_one_call_historical ==
  /\ pc = "idle"
  /\ \E coordinates \in CoordinatesSet, dt \in Secs, key \in Keys,
        settings \in SettingsSet, resp \in Responses :
       Fetch([fn |-> "get_one_call_historical", key |-> key, dt |-> dt,
              coordinates |-> coordinates, settings |-> settings],
             "onecall/timemachine",
             SettingsFormat(settings)
               \o << Param("lat", ToString(coordinates.lat), "coordinates"),
                     Param("lon", ToString(coordinates.lon), "coordinates"),
                     Param("dt", ToString(dt), "dt"),
                     AppId(key) >>,
             resp)

get_historical_data ==
  /\ pc = "idle"
  /\ \E location \in Locations, key \in Keys, start \in Secs, end \in Secs,
        settings \in SettingsSet, resp \in Responses :
       Fetch([fn |-> "get_historical_data", key |-> key,
              start |-> start, end |-> end,
              location |-> location, settings |-> settings],
             "history/city",
             LocationFormat(location)
               \o << Param("type", "hour", "literal"),
                     Param("start", ToString(start), "start"),
                     Param("end", ToString(end), "end"),
                     AppId(key) >>
               \o SettingsFormat(settings),
             resp)

get_accumulated_temperature_data ==
  /\ pc = "idle"
  /\ \E location \in Locations, key \in Keys, start \in Secs, end \in Secs,
        threshold \in Thresholds, settings \in SettingsSet, resp \in Responses :
       Fetch([fn |-> "get_accumulated_temperature_data", key |-> key,
              start |-> start, end |-> end, threshold |-> threshold,
              location |-> location, settings |-> settings],
             "history/accumulated_temperature",
             LocationFormat(location)
               \o << Param("type", "hour", "literal"),
                     Param("start", ToString(start), "start"),
                     Param("end", ToString(end), "end"),
                     Param("threshold", ToString(threshold), "threshold"),
                     AppId(key) >>
               \o SettingsFormat(settings),
             resp)

get_accumulated_precipitation_data ==
  /\ pc = "idle"
  /\ \E location \in Locations, key \in Keys, start \in Secs, end \in Secs,
        threshold \in Thresholds, settings \in SettingsSet, resp \in Responses :
       Fetch([fn |-> "get_accumulated_precipitation_data", key |-> key,
              start |-> start, end |-> end, threshold |-> threshold,
              location |-> location, settings |-> settings],
             "history/accumulated_precipitation",
             LocationFormat(location)
               \o << Param("type", "hour", "literal"),
                     Param("start", ToString(start), "start"),
                     Param("end", ToString(end), "end"),
                     Param("threshold", ToString(threshold), "threshold"),
                     AppId(key) >>
               \o SettingsFormat(settings),
             resp)

get_current_uv_index ==
  /\ pc = "idle"
  /\ \E location \in Locations, key \in Keys, settings \in SettingsSet,
        resp \in Responses :
       Fetch([fn |-> "get_current_uv_index", key |-> key,
              location |-> location, settings |-> settings],
             "uvi",
             LocationFormat(location)
               \o << AppId(key) >>
               \o SettingsFormat(settings),
             resp)

get_forecast_uv_index ==
  /\ pc = "idle"
  /\ \E location \in Locations, key \in Keys, len \in Lens,
        settings \in SettingsSet, resp \in Responses :
       LET c == [fn |-> "get_forecast_uv_index", key |-> key, len |-> len,
                 location |-> location, settings |-> settings]
       IN IF BadLenUv(len)
          THEN Rejected(c, InputError(MaxDaysUv, len))
          ELSE Fetch(c, "uvi/forecast",
                     LocationFormat(location)
                       \o << Param("cnt", ToString(len), "len"),
                             AppId(key) >>
                       \o SettingsFormat(settings),
                     resp)

get_historical_uv_index ==
  /\ pc = "idle"
  /\ \E location \in Locations, key \in Keys, start \in Secs, end \in Secs,
        settings \in SettingsSet, resp \in Responses :
       Fetch([fn |-> "get_historical_uv_index", key |-> key,
              start |-> start, end |-> end,
              location |-> location, settings |-> settings],
             "uvi/history",
             LocationFormat(location)
               \o << Param("start", ToString(start), "start"),
                     Param("end", ToString(end), "end"),
                     AppId(key) >>
               \o SettingsFormat(settings),
             resp)

\* the caller takes the result; nothing of the call is kept by the library
Return ==
  /\ pc = "returned"
  /\ pc' = "idle"
  /\ call' = NoCall
  /\ params' = <<>>
  /\ requests' = <<>>
  /\ decodes' = <<>>
  /\ exchange' = NoExchange
  /\ result' = NoResult

--------------------------------------------------------------------------

Init ==
  /\ pc = "idle"
  /\ call = NoCall
  /\ params = <<>>
  /\ requests = <<>>
  /\ decodes = <<>>
  /\ exchange = NoExchange
  /\ result = NoResult

Next ==
  \/ get_current_weather
  \/ get_5_day_forecast
  \/ get_16_day_forecast
  \/ get_one_call_current
  \/ get_one_call_historical
  \/ get_historical_data
  \/ get_accumulated_temperature_data
  \/ get_accumulated_precipitation_data
  \/ get_current_uv_index
  \/ get_forecast_uv_index
  \/ get_historical_uv_index
  \/ Return

Spec == Init /\ [][Next]_vars

--------------------------------------------------------------------------
(* Properties.                                                            *)

Returned == pc = "returned"

\* the call reached get and the HTTP exchange completed
Exchanged == Returned /\ requests # <<>> /\ exchange.ok

\* the call reached get and the transport failed
TransportFailed == Returned /\ requests # <<>> /\ ~exchange.ok

\* the success type of the call that returned
CallType == ReturnType(call.fn)

AsSuccess == DecodeSuccess(CallType, exchange.body)
AsErrorReport == DecodeErrorReport(exchange.body)

Positions(name) == { i \in 1..Len(params) : params[i].name = name }

\* C1: get_16_day_forecast fails with Error::Input exactly when len = 0 or
\* len > 16, and then nothing was built and no HTTP request was performed;
\* for len in 1..16 it is not rejected: it builds the parameters (with
\* cnt = len) and performs the fetch.
C1_Forecast16InputCheck ==
  (Returned /\ call.fn = "get_16_day_forecast") =>
    /\ (result.kind = "Input") <=> (call.len = 0 \/ call.len > 16)
    /\ result.kind = "Input" =>
         /\ requests = <<>> /\ params = <<>> /\ decodes = <<>>
         /\ result.max = 16 /\ result.requested = call.len
    /\ result.kind # "Input" =>
         /\ call.len \in 1..16
         /\ Len(requests) = 1
         /\ \E i \in 1..Len(params) :
              params[i].name = "cnt" /\ params[i].value = ToString(call.len)

C1_Witness ==
  /\ Returned /\ call.fn = "get_16_day_forecast" /\ call.len = 17
  /\ result.kind = "Input" /\ requests = <<>>

\* C2: get_forecast_uv_index fails with Error::Input exactly when len = 0
\* or len > 8, and then no HTTP request was performed; for len in 1..8 it
\* is not rejected: it builds the parameters and performs the fetch.
C2_ForecastUvInputCheck ==
  (Returned /\ call.fn = "get_forecast_uv_index") =>
    /\ (result.kind = "Input") <=> (call.len = 0 \/ call.len > 8)
    /\ result.kind = "Input" =>
         /\ requests = <<>> /\ params = <<>> /\ decodes = <<>>
         /\ result.max = 8 /\ result.requested = call.len
    /\ result.kind # "Input" =>
         /\ call.len \in 1..8
         /\ Len(requests) = 1
         /\ \E i \in 1..Len(params) :
              params[i].name = "cnt" /\ params[i].value = ToString(call.len)

C2_Witness ==
  /\ Returned /\ call.fn = "get_forecast_uv_index" /\ call.len = 0
  /\ result.kind = "Input" /\ requests = <<>>

\* C3: when the transport succeeds and the body decodes as the success
\* type T, get returns Ok with the decoded value, and the error-report
\* decode was not attempted: a body that decodes as both is a success.
C3_SuccessDecodeWins ==
  (Exchanged /\ AsSuccess.ok) =>
    /\ result = [kind |-> "Ok", val |-> AsSuccess.val]
    /\ decodes = << CallType >>

C3_Witness ==
  /\ Exchanged /\ AsSuccess.ok /\ AsErrorReport.ok
  /\ result.kind = "Ok"

\* C4: when the transport succeeds and the body does not decode as T but
\* decodes as ErrorReport, get fails with Error::Api carrying exactly the
\* decoded report.
C4_ApiErrorCarriesReport ==
  (Exchanged /\ ~AsSuccess.ok /\ AsErrorReport.ok) =>
    /\ result = [kind |-> "Api", report |-> AsErrorReport.val]
    /\ decodes = << CallType, "ErrorReport" >>

C4_Witness ==
  /\ Exchanged /\ ~AsSuccess.ok /\ AsErrorReport.ok
  /\ result.kind = "Api" /\ result.report.cod = "401"

\* C5: when the transport succeeds and the body decodes neither as T nor
\* as ErrorReport, get fails with Error::Parsing2, which carries the two
\* decode failures; it is never Ok and never Error::Api.
C5_NeitherIsParsing2 ==
  (Exchanged /\ ~AsSuccess.ok /\ ~AsErrorReport.ok) =>
    /\ result.kind = "Parsing2"
    /\ \/ result.e0 = AsSuccess.err /\ result.e1 = AsErrorReport.err
       \/ result.e0 = AsErrorReport.err /\ result.e1 = AsSuccess.err

C5_Witness ==
  /\ Exchanged /\ exchange.body.json
  /\ ~AsSuccess.ok /\ ~AsErrorReport.ok
  /\ result.kind = "Parsing2"

\* C6 (as claimed): every call of an exported endpoint function performs
\* exactly one network round-trip, on every path.
C6_ExactlyOneRoundTrip ==
  Returned => Len(requests) = 1

\* C6 (amended): a call performs exactly one network round-trip when it
\* reaches get, whatever get returns, and none when it is rejected before
\* the fetch with Error::Input (or Error::UrlParsing).
C6_OneRoundTripUnlessRejected ==
  Returned =>
    Len(requests) = (IF result.kind \in {"Input", "UrlParsing"} THEN 0 ELSE 1)

C6_Witness ==
  /\ Returned /\ TransportFailed
  /\ result.kind = "Connection" /\ Len(requests) = 1

\* C7: in every call that reaches URL construction, the parameter sequence
\* handed to the URL builder has the name APPID exactly once, with the
\* caller's key as its value, and the endpoint function puts the key under
\* no other name; the URL requested has the same parameters in its query.
C7_AppIdExactlyOnce ==
  (Returned /\ params # <<>>) =>
    /\ Cardinality(Positions("APPID")) = 1
    /\ \A i \in Positions("APPID") :
         params[i].value = call.key /\ params[i].arg = "key"
    /\ \A i \in 1..Len(params) : params[i].arg = "key" => params[i].name = "APPID"
    /\ \A j \in 1..Len(requests) :
         requests[j].query = [i \in 1..Len(params) |-> <<params[i].name, params[i].value>>]

C7_Witness ==
  /\ Returned /\ call.fn = "get_current_weather"
  /\ call.location.variant = "CityAndCountryName"
  /\ call.key = "key-2"
  /\ Cardinality(Positions("APPID")) = 1
  /\ Positions("q") # {}

\* C8: in Error::Parsing2 the first failure carried is the one of the
\* decode as the success type ("Parsing as Weather: {0}") and the second
\* the one of the decode as ErrorReport ("Parsing as ErrorReport: {1}").
C8_Parsing2Order ==
  (Exchanged /\ result.kind = "Parsing2") =>
    /\ result.e0 = AsSuccess.err
    /\ result.e1 = AsErrorReport.err

\* C9: when the HTTP GET itself fails, get returns Error::Connection with
\* the transport's error: no decode is attempted and no second request is
\* issued.
C9_ConnectionFailurePropagates ==
  TransportFailed =>
    /\ result = [kind |-> "Connection", err |-> exchange.err]
    /\ decodes = <<>>
    /\ Len(requests) = 1

C9_Witness ==
  /\ TransportFailed /\ call.fn = "get_one_call_current"
  /\ result.kind = "Connection"

\* C10: the result of get is a function of the body alone: the exchange
\* with the same body and any other status code gives the result this
\* call returned.
C10_StatusNeverDecides ==
  Exchanged =>
    \A s \in Statuses :
      get(CallType, requests[1], [exchange EXCEPT !.status = s]).result = result

C10_Witness ==
  /\ Exchanged /\ exchange.status = "401"
  /\ AsSuccess.ok /\ result.kind = "Ok"

==========================================================================
